---- MODULE Spec2Model ----
(***************************************************************************)
(* Model of src/src/julia_init.c: the bootstrap shim that forwards the     *)
(* process arguments, locates the system image library, derives the depot  *)
(* directory from its path, sets JULIA_DEPOT_PATH and JULIA_LOAD_PATH,     *)
(* records the image path in jl_options and calls julia_init; and the      *)
(* shutdown entry point that calls jl_atexit_hook.                         *)
(*                                                                         *)
(* Strings of the C program are sequences of one-character strings.        *)
(* Pointers are modelled by what they point to: sysimage_path is "unset",  *)
(* "NULL" or "ptr", and pathStore is the content of the string "ptr"       *)
(* points to.  The stack array buf of set_depot_path is the pair           *)
(* (buf, bufLive): its bytes and whether its lifetime has ended.           *)
(***************************************************************************)
EXTENDS Naturals, Integers, Sequences, FiniteSets

VARIABLES
    pc,            \* position of the host in init_julia and after it
    libname,       \* JULIAC_PROGRAM_LIBNAME of the build: "NULL" or a name
    inPlace,       \* the libc's dirname writes into its argument (glibc, musl)
                   \* or answers from storage of its own (POSIX allows both)
    sysimage_path, \* the pointer get_sysimage_path returned
    pathStore,     \* the string sysimage_path points to, as it is now
    resolved,      \* the string the loader returned (history: never written)
    buf,           \* bytes of set_depot_path's local array buf
    bufLive,       \* the array's lifetime has not ended
    envDepot,      \* what environ's JULIA_DEPOT_PATH entry points to
    envLoad,       \* the value of JULIA_LOAD_PATH ("UNSET": not in environ)
    presetLoad,    \* the value JULIA_LOAD_PATH had at process start (history)
    image_file,    \* jl_options.image_file: "unset", "NULL" or "ptr"
    calls,         \* the calls made so far, in order (history)
    hookCalls,     \* the arguments jl_atexit_hook was called with, in order
    shutdownArg,   \* the retcode the host passed to shutdown_julia (history)
    exitStatus,    \* the status the process ended with (-1: it has not)
    initSaw,       \* what julia_init read: the image path and the depot entry
    depotHistory,  \* the string each set_depot_path call handed to putenv
    loadHistory    \* the value of JULIA_LOAD_PATH after each set_depot_path

vars ==
    << pc, libname, inPlace, sysimage_path, pathStore, resolved, buf, bufLive,
       envDepot, envLoad, presetLoad, image_file, calls, hookCalls,
       shutdownArg, exitStatus, initSaw, depotHistory, loadHistory >>

----------------------------------------------------------------------------
(* Bounds of the model *)

\* Longest path, in characters, among the exhaustively enumerated ones.
MaxPathLen == 6

\* The long paths run from PATH_MAX + 4 to PATH_MAX + 4 + MaxOver characters.
MaxOver == 3

\* Number of direct calls of set_depot_path the caller of DepotSpec makes.
MaxCalls == 2

----------------------------------------------------------------------------
(* Constants of the program *)

\* <limits.h> of the Linux build.
PATH_MAX == 4096

\* char buf[PATH_MAX + 20];  sizeof(buf)
BufSize == PATH_MAX + 20

\* "JULIA_DEPOT_PATH=" of the format string.
DepotPrefix ==
    << "J", "U", "L", "I", "A", "_", "D", "E", "P", "O", "T", "_",
       "P", "A", "T", "H", "=" >>

\* the "/" that follows %s in the format string.
Separator == << "/" >>

\* The value part of "JULIA_LOAD_PATH=@".
LoadSentinel == "@"

\* julia_init(JL_IMAGE_JULIA_HOME) is reached through this order of calls.
InitOrder ==
    << "uv_setup_args", "libsupport_init", "jl_parse_opts",
       "jl_load_dynamic_library", "jl_pathname_for_handle",
       "dirname", "dirname", "snprintf", "putenv_depot", "putenv_load",
       "image_file", "julia_init" >>

----------------------------------------------------------------------------
(* Inputs *)

Alphabet == {"/", "a"}

ShortPaths == UNION { [1..k -> Alphabet] : k \in 0..MaxPathLen }

ExamplePath ==
    << "/", "o", "p", "t", "/", "a", "p", "p", "/", "l", "i", "b", "/",
       "x", "8", "6", "/", "i", "m", "a", "g", "e", ".", "s", "o" >>

\* "/aaa...a/a/a" of n characters: a root of n - 4 characters, a directory
\* and a file.
LongPath(n) == [i \in 1..n |-> IF i \in {1, n - 3, n - 1} THEN "/" ELSE "a"]

LongPaths == { LongPath(n) : n \in (PATH_MAX + 4)..(PATH_MAX + 4 + MaxOver) }

\* What jl_pathname_for_handle can answer with a non-null pointer.
ResolvedPaths == ShortPaths \cup {ExamplePath} \cup LongPaths

LibNames == {"NULL", "libimage"}

PresetLoads == {"UNSET", "@", "/site/load", "@:/site/load"}

\* int retcode: values at and between the ends of a 32-bit int.
RetCodes == {-2147483647 - 1, -1, 0, 1, 255, 256, 2147483647}

----------------------------------------------------------------------------
(* dirname *)

\* strrchr(path, '/') and memrchr(path, '/', n): the index of the last '/'
\* among the first n characters, 0 for a null result.
LastSlash(s, n) ==
    CHOOSE i \in 0..n :
        /\ i = 0 \/ s[i] = "/"
        /\ \A k \in (i + 1)..n : s[k] # "/"

\* for (runp = last_slash; runp != path; --runp) if (runp[-1] != '/') break;
\* the index runp ends at, having started at i.
RunStart(s, i) ==
    CHOOSE r \in 1..i :
        /\ r = 1 \/ s[r - 1] # "/"
        /\ \A k \in r..(i - 1) : s[k] = "/"

\* dirname(3) as the GNU C library computes it.  The answer is [str, wrote]:
\* the string returned, and whether it is the argument cut short (a NUL
\* written into it) rather than the static ".".
Dirname(s) ==
    LET n   == Len(s)
        ls0 == LastSlash(s, n)
        ls1 == IF ls0 # 0 /\ ls0 # 1 /\ ls0 = n
               THEN LET r == RunStart(s, ls0)
                    IN  IF r # 1 THEN LastSlash(s, r - 1) ELSE ls0
               ELSE ls0
    IN  IF ls1 # 0
        THEN LET r   == RunStart(s, ls1)
                 cut == IF r = 1
                        THEN (IF ls1 = 2 THEN 3 ELSE 2)
                        ELSE r
             IN  [str |-> SubSeq(s, 1, cut - 1), wrote |-> TRUE]
        ELSE [str |-> << "." >>, wrote |-> FALSE]

DirnameOnce(ptr, s, writes) ==
    IF ptr = "NULL"
    THEN [depot |-> << "." >>, store |-> s]
    ELSE LET d1 == Dirname(s)
         IN  [depot |-> d1.str,
              store |-> IF writes /\ d1.wrote THEN d1.str ELSE s]

\* dirname(dirname(sysimage_path)): [depot, store], the string handed to %s
\* and the content of the argument string afterwards.  A null argument gives
\* "." and writes nothing.
DirnameTwice(ptr, s, writes) ==
    IF ptr = "NULL"
    THEN [depot |-> << "." >>, store |-> s]
    ELSE LET d1 == Dirname(s)
             d2 == IF d1.wrote THEN Dirname(d1.str) ELSE d1
             after == IF d2.wrote THEN d2.str
                      ELSE IF d1.wrote THEN d1.str
                      ELSE s
         IN  [depot |-> d2.str, store |-> IF writes THEN after ELSE s]

----------------------------------------------------------------------------
(* set_depot_path *)

Take(s, n) == IF Len(s) <= n THEN s ELSE SubSeq(s, 1, n)

\* snprintf(buf, sizeof(buf), "JULIA_DEPOT_PATH=%s/", depot): at most
\* sizeof(buf) - 1 characters and the terminating NUL.
Snprintf(size, depot) == Take(DepotPrefix \o depot \o Separator, size - 1)

PutenvLoadPathKeep(old) == IF old = "UNSET" THEN LoadSentinel ELSE old

\* putenv("JULIA_LOAD_PATH=@"): the entry of that name is replaced.
PutenvLoadPath(old) == LoadSentinel

\* The whole of set_depot_path(sysimage_path), on return.
SetDepotPathEffect ==
    LET d == DirnameTwice(sysimage_path, pathStore, inPlace)
        b == Snprintf(BufSize, d.depot)
    IN  /\ pathStore' = d.store
        /\ buf' = b
        /\ bufLive' = FALSE
        /\ envDepot' = "buf"
        /\ envLoad' = PutenvLoadPath(envLoad)
        /\ depotHistory' = Append(depotHistory, b)
        /\ loadHistory' = Append(loadHistory, PutenvLoadPath(envLoad))

----------------------------------------------------------------------------
(* The host process: init_julia, then shutdown_julia *)

NoInit ==
    [called |-> FALSE, imageNull |-> FALSE, image |-> << >>, depot |-> << >>]

\* Bytes found where an object whose lifetime has ended used to be.
Garbage == << "?" >>

Init ==
    /\ pc = "start"
    /\ libname \in LibNames
    /\ inPlace \in BOOLEAN
    /\ sysimage_path = "unset"
    /\ pathStore = << >>
    /\ resolved = << >>
    /\ buf = << >>
    /\ bufLive = FALSE
    /\ envDepot = "preset"
    /\ envLoad \in PresetLoads
    /\ presetLoad = envLoad
    /\ image_file = "unset"
    /\ calls = << >>
    /\ hookCalls = << >>
    /\ shutdownArg = 0
    /\ exitStatus = -1
    /\ initSaw = NoInit
    /\ depotHistory = << >>
    /\ loadHistory = << >>

\* setup_args(argc, argv)
SetupArgs ==
    /\ pc = "start"
    /\ pc' = "args_done"
    /\ calls' = calls \o << "uv_setup_args", "libsupport_init", "jl_parse_opts" >>
    /\ UNCHANGED << libname, inPlace, sysimage_path, pathStore, resolved, buf,
                    bufLive, envDepot, envLoad, presetLoad, image_file,
                    hookCalls, shutdownArg, exitStatus, initSaw, depotHistory,
                    loadHistory >>

LibnameMissingNever(l) == FALSE

\* if (libname == NULL)
LibnameMissing(l) == l = "NULL"

\* What jl_load_dynamic_library(libname, JL_RTLD_DEFAULT, 0) followed by
\* jl_pathname_for_handle(handle) can answer: a null pointer (the library
\* was not opened, or the handle has no path) or a path.
LoaderAnswers ==
    {[ptr |-> "NULL", str |-> << >>]}
      \cup {[ptr |-> "ptr", str |-> p] : p \in ResolvedPaths}

\* sysimage_path = get_sysimage_path(JULIAC_PROGRAM_LIBNAME)
GetSysimagePath ==
    /\ pc = "args_done"
    /\ \/ /\ LibnameMissing(libname)
          /\ calls' = Append(calls, "jl_error")
          /\ pc' = "exited"
          /\ exitStatus' = 1
          /\ UNCHANGED << sysimage_path, pathStore, resolved >>
       \/ /\ ~LibnameMissing(libname)
          /\ \E r \in LoaderAnswers :
                /\ sysimage_path' = r.ptr
                /\ pathStore' = r.str
                /\ resolved' = r.str
          /\ calls' = calls \o << "jl_load_dynamic_library", "jl_pathname_for_handle" >>
          /\ pc' = "located"
          /\ UNCHANGED exitStatus
    /\ UNCHANGED << libname, inPlace, buf, bufLive, envDepot, envLoad,
                    presetLoad, image_file, hookCalls, shutdownArg, initSaw,
                    depotHistory, loadHistory >>

\* set_depot_path((char *)sysimage_path)
SetDepotPath ==
    /\ pc = "located"
    /\ SetDepotPathEffect
    /\ pc' = "configured"
    /\ calls' = calls \o << "dirname", "dirname", "snprintf", "putenv_depot", "putenv_load" >>
    /\ UNCHANGED << libname, inPlace, sysimage_path, resolved, presetLoad,
                    image_file, hookCalls, shutdownArg, exitStatus, initSaw >>

\* jl_options.image_file = sysimage_path
SetImageFile ==
    /\ pc = "configured"
    /\ image_file' = sysimage_path
    /\ pc' = "image_set"
    /\ calls' = Append(calls, "image_file")
    /\ UNCHANGED << libname, inPlace, sysimage_path, pathStore, resolved, buf,
                    bufLive, envDepot, envLoad, presetLoad, hookCalls,
                    shutdownArg, exitStatus, initSaw, depotHistory,
                    loadHistory >>

\* What a read of environ's JULIA_DEPOT_PATH entry can find: the bytes of buf
\* while the array lives; anything once its lifetime has ended.
DepotReads == IF bufLive THEN {buf} ELSE {buf, Garbage}

\* The effect of julia_init(JL_IMAGE_JULIA_HOME): the runtime reads
\* jl_options.image_file and the environment, then either returns or ends
\* the process with its own error.
JuliaInitFrom(at) ==
    /\ pc = at
    /\ calls' = Append(calls, "julia_init")
    /\ \E d \in DepotReads :
          initSaw' = [called |-> TRUE, imageNull |-> image_file # "ptr",
                      image |-> IF image_file = "ptr" THEN pathStore ELSE << >>,
                      depot |-> d]
    /\ \/ /\ pc' = "running"
          /\ UNCHANGED exitStatus
       \/ /\ pc' = "exited"
          /\ exitStatus' = 1
    /\ UNCHANGED << libname, inPlace, sysimage_path, pathStore, resolved, buf,
                    bufLive, envDepot, envLoad, presetLoad, image_file,
                    hookCalls, shutdownArg, depotHistory, loadHistory >>

JuliaInitEarly == JuliaInitFrom("configured")

\* julia_init(JL_IMAGE_JULIA_HOME), the last statement of init_julia
JuliaInit == JuliaInitFrom("image_set")

AtexitArgLowByte(retcode) == retcode % 256

\* the argument of jl_atexit_hook(retcode)
AtexitArg(retcode) == retcode

\* shutdown_julia(retcode), called by the host once init_julia has returned
ShutdownJulia ==
    /\ pc = "running"
    /\ \E n \in RetCodes :
          /\ shutdownArg' = n
          /\ hookCalls' = Append(hookCalls, AtexitArg(n))
    /\ pc' = "terminated"
    /\ calls' = Append(calls, "jl_atexit_hook")
    /\ UNCHANGED << libname, inPlace, sysimage_path, pathStore, resolved, buf,
                    bufLive, envDepot, envLoad, presetLoad, image_file,
                    exitStatus, initSaw, depotHistory, loadHistory >>

Next ==
    \/ SetupArgs
    \/ GetSysimagePath
    \/ SetDepotPath
    \/ SetImageFile
    \/ JuliaInit
    \/ ShutdownJulia

Spec == Init /\ [][Next]_vars

----------------------------------------------------------------------------
(* A caller of set_depot_path alone: the function is external, and the      *)
(* caller passes it the same char * each time.                              *)

DepotInit ==
    /\ pc = "caller"
    /\ libname = "libimage"
    /\ inPlace \in BOOLEAN
    /\ \E r \in LoaderAnswers :
          /\ sysimage_path = r.ptr
          /\ pathStore = r.str
          /\ resolved = r.str
    /\ buf = << >>
    /\ bufLive = FALSE
    /\ envDepot = "preset"
    /\ envLoad \in PresetLoads
    /\ presetLoad = envLoad
    /\ image_file = "unset"
    /\ calls = << >>
    /\ hookCalls = << >>
    /\ shutdownArg = 0
    /\ exitStatus = -1
    /\ initSaw = NoInit
    /\ depotHistory = << >>
    /\ loadHistory = << >>

\* set_depot_path(sysimage_path), called directly
CallSetDepotPath ==
    /\ pc = "caller"
    /\ Len(depotHistory) < MaxCalls
    /\ SetDepotPathEffect
    /\ calls' = calls \o << "dirname", "dirname", "snprintf", "putenv_depot", "putenv_load" >>
    /\ UNCHANGED << pc, libname, inPlace, sysimage_path, resolved, presetLoad,
                    image_file, hookCalls, shutdownArg, exitStatus, initSaw >>

DepotNext == CallSetDepotPath

DepotSpec == DepotInit /\ [][DepotNext]_vars

----------------------------------------------------------------------------
(* Properties *)

AfterConfigure == {"configured", "image_set", "running", "terminated"}

Called(name) == \E i \in 1..Len(calls) : calls[i] = name

CountCalls(name) == Cardinality({i \in 1..Len(calls) : calls[i] = name})

IsPrefix(s, t) == Len(s) <= Len(t) /\ SubSeq(t, 1, Len(s)) = s

\* The path reads <root>/<dir>/<file>: its last two segments are non-empty
\* names, each preceded by a separator.
HasLayout(p) ==
    LET j == LastSlash(p, Len(p))
        i == IF j > 1 THEN LastSlash(p, j - 1) ELSE 0
    IN  j # 0 /\ j < Len(p) /\ i # 0 /\ i < j - 1

\* <root> of a path that reads <root>/<dir>/<file>.
LayoutRoot(p) ==
    LET j == LastSlash(p, Len(p))
        i == LastSlash(p, j - 1)
    IN  SubSeq(p, 1, i - 1)

\* The run reached set_depot_path with a path that reads <root>/<dir>/<file>.
ConfiguredWithLayout ==
    pc = "configured" /\ sysimage_path = "ptr" /\ HasLayout(resolved)

ExampleDepot == << "/", "o", "p", "t", "/", "a", "p", "p" >>

ExampleParent ==
    << "/", "o", "p", "t", "/", "a", "p", "p", "/", "l", "i", "b" >>

\* C1: with a NULL library name the run ends with a non-zero status at
\* get_sysimage_path: julia_init is never called, neither environment
\* variable is set and jl_options.image_file is not written.
C1_NullLibnameFatal ==
    libname = "NULL" =>
        /\ pc \in {"start", "args_done", "exited"}
        /\ pc = "exited" => exitStatus > 0
        /\ ~Called("julia_init")
        /\ ~Called("putenv_depot") /\ ~Called("putenv_load")
        /\ envDepot = "preset" /\ envLoad = presetLoad
        /\ image_file = "unset"

C1_Witness ==
    libname = "NULL" /\ pc = "exited" /\ exitStatus = 1 /\ Called("jl_error")

\* C2: once jl_options.image_file is set, the string it points to is the
\* full path get_sysimage_path returned, and julia_init reads that path.
C2_ImageFileIsResolved ==
    /\ image_file = "ptr" => pathStore = resolved
    /\ (initSaw.called /\ ~initSaw.imageNull) => initSaw.image = resolved

\* C3 as stated: for a path <root>/<dir>/<file> the depot entry is <root>
\* and one separator, and for /opt/app/lib/x86/image.so it is /opt/app/.
C3_AsStated ==
    ConfiguredWithLayout =>
        /\ buf = DepotPrefix \o LayoutRoot(resolved) \o Separator
        /\ resolved = ExamplePath => buf = DepotPrefix \o ExampleDepot \o Separator

\* C3 amended: for a path <root>/<dir>/<file> whose <root> is non-empty and
\* does not end in a separator, set_depot_path hands putenv the string
\* JULIA_DEPOT_PATH=<root>/ cut to sizeof(buf) - 1 characters, which is all
\* of it when <root> has at most PATH_MAX + 1 characters; for
\* /opt/app/lib/x86/image.so the value is /opt/app/lib/.
C3_DepotIsLayoutRoot ==
    ConfiguredWithLayout =>
        LET root == LayoutRoot(resolved)
            full == DepotPrefix \o root \o Separator
        IN  (root # << >> /\ root[Len(root)] # "/") =>
               /\ buf = Take(full, BufSize - 1)
               /\ depotHistory = << buf >>
               /\ Len(root) <= PATH_MAX + 1 => buf = full
               /\ resolved = ExamplePath =>
                     buf = DepotPrefix \o ExampleParent \o Separator

C3_Witness ==
    /\ ConfiguredWithLayout
    /\ resolved = ExamplePath
    /\ buf = DepotPrefix \o ExampleParent \o Separator

\* C4: a second set_depot_path call with the same argument leaves both
\* environment variables as the first call left them.
C4_SecondCallSame ==
    Len(depotHistory) >= 2 =>
        /\ depotHistory[2] = depotHistory[1]
        /\ loadHistory[2] = loadHistory[1]

\* C5: jl_atexit_hook is called once, by shutdown_julia, with exactly the
\* retcode shutdown_julia was given.
C5_HookSeesRetcode ==
    /\ pc = "terminated" => hookCalls = << shutdownArg >>
    /\ pc # "terminated" => hookCalls = << >>
    /\ CountCalls("jl_atexit_hook") = Len(hookCalls)

C5_Witness ==
    pc = "terminated" /\ shutdownArg = -2147483647 - 1 /\ hookCalls = << shutdownArg >>

\* C6: after set_depot_path JULIA_LOAD_PATH is "@", whatever it was before.
C6_LoadPathIsSentinel ==
    /\ pc \in AfterConfigure => envLoad = LoadSentinel
    /\ \A i \in 1..Len(loadHistory) : loadHistory[i] = LoadSentinel

C6_Witness ==
    pc = "configured" /\ presetLoad = "@:/site/load" /\ envLoad = LoadSentinel

\* C7: the calls of an init_julia run are made in the one order argument
\* forwarding, library lookup, depot computation and both putenv calls, the
\* write of image_file, julia_init; julia_init is called at most once, and
\* exactly once, last, in a run that gets past get_sysimage_path.
C7_LinearOrder ==
    /\ \/ IsPrefix(calls, InitOrder \o << "jl_atexit_hook" >>)
       \/ calls = SubSeq(InitOrder, 1, 3) \o << "jl_error" >>
    /\ CountCalls("julia_init") <= 1
    /\ Called("julia_init") =>
          /\ SubSeq(calls, 1, Len(InitOrder)) = InitOrder
          /\ image_file # "unset" /\ envDepot = "buf"
    /\ pc \in {"running", "terminated"} => CountCalls("julia_init") = 1

C7_Witness == pc = "running" /\ calls = InitOrder

\* C8: after set_depot_path has returned, the storage environ's
\* JULIA_DEPOT_PATH entry points to is live, and julia_init reads from it
\* the string set_depot_path composed.
C8_DepotStorageLive ==
    /\ (pc \in AfterConfigure /\ envDepot = "buf") => bufLive
    /\ initSaw.called => initSaw.depot = depotHistory[1]

\* C9: the string composed in buf is always the whole of
\* JULIA_DEPOT_PATH=<depot>/, whatever the length of the path.
C9_NeverTruncated ==
    pc = "configured" =>
        buf = DepotPrefix
                \o DirnameTwice(sysimage_path, resolved, inPlace).depot
                \o Separator

\* C10: with a non-NULL library name, the path get_sysimage_path returns is
\* not null, and a null path reaches neither set_depot_path nor
\* jl_options.image_file nor julia_init.
C10_PathNeverNull ==
    libname # "NULL" =>
        /\ pc \in {"located"} \cup AfterConfigure => sysimage_path = "ptr"
        /\ image_file # "NULL"
        /\ initSaw.called => ~initSaw.imageNull

====
